---- MODULE Spec2Model ----
(***************************************************************************)
(* A model of wikidata-fca: the transitive-closure index builder           *)
(* (indexes-from-dumps.py), the claim classifier and value formatters      *)
(* (wikidata/__init__.py) and the colouring engine with its context        *)
(* accumulator (context-from-dumps.py).                                    *)
(*                                                                         *)
(* Texts (Python str) are sequences of one-character strings, so that      *)
(* slicing, rfind and concatenation are computed as the code computes      *)
(* them.  Python dicts are functions; a missing key is a value outside     *)
(* DOMAIN.                                                                 *)
(***************************************************************************)
EXTENDS Integers, Sequences, FiniteSets, TLC

VARIABLES
    \* transitive_closure (indexes-from-dumps.py)
    tc_input,       \* the relation handed to the first call
    tc_relation,    \* local `relation`
    tc_changed,     \* local `changed`
    tc_pc,          \* "idle" | "loop" | "returned"
    tc_run,         \* 1: closing tc_input, 2: closing the first call's result
    tc_first,       \* the first call's return value (<<>> before it returns)
    \* format_datavalue (wikidata/__init__.py)
    seen_datatypes, \* the module's __seen_datatypes__
    log,            \* the datatypes print() reported, in order
    r_labels,       \* the label table of the render calls (index in LabelTables)
    r_snaks,        \* the snak objects, as the calls so far left them
    r_calls,        \* the calls so far: snak, argument, outcome
    \* context_from_dump driving process_entity
    options,        \* the options of the run
    dump,           \* the entities of the dump (indexes in Entities)
    pending,        \* the entities not read yet
    context,        \* local `context`
    acc_results,    \* what process_entity returned, per entity read
    acc_pc,         \* "idle" | "reading" | "done" | "failed"
    \* one call of each colouring strategy
    col_subject,
    col_prop,
    col_claim,      \* index in ClaimPool
    col_out,        \* strategy -> what it returned, for the strategies called
    \* direct_relations_from_dump (indexes-from-dumps.py)
    ix_dump,        \* the entities of the dump (indexes in Entities)
    ix_pending,     \* the entities not read yet
    ix_labels,      \* local `labels`
    ix_instances,   \* local `instances`
    ix_subclasses,  \* local `subclasses`
    ix_pc           \* "idle" | "reading" | "returned"

tc_vars == <<tc_input, tc_relation, tc_changed, tc_pc, tc_run, tc_first>>
fmt_vars == <<seen_datatypes, log>>
r_vars == <<r_labels, r_snaks, r_calls>>
acc_vars == <<options, dump, pending, context, acc_results, acc_pc>>
col_vars == <<col_subject, col_prop, col_claim, col_out>>
ix_vars == <<ix_dump, ix_pending, ix_labels, ix_instances, ix_subclasses, ix_pc>>

vars == <<tc_vars, fmt_vars, r_vars, acc_vars, col_vars, ix_vars>>

\* what the steps of one program leave alone: the other programs' state
tc_others == <<fmt_vars, r_vars, acc_vars, col_vars, ix_vars>>
r_others == <<tc_vars, acc_vars, col_vars, ix_vars>>
acc_others == <<tc_vars, r_vars, col_vars, ix_vars>>
col_others == <<tc_vars, fmt_vars, r_vars, acc_vars, ix_vars>>
ix_others == <<tc_vars, fmt_vars, r_vars, acc_vars, col_vars>>

-----------------------------------------------------------------------------
(* Bounds *)

\* identifiers of the relations handed to transitive_closure: 1..MaxId
MaxId == 3

-----------------------------------------------------------------------------
(* transitive_closure, indexes-from-dumps.py:10-32 *)

Ids == 1..MaxId

\* every relation id -> set of id whose keys and successors are in Ids
Relations == UNION {[K -> SUBSET Ids] : K \in SUBSET Ids}

\* lines 20-24: relation[successor], or nothing on KeyError
SuccessorsOrNone(relation, successor) ==
    IF successor \in DOMAIN relation THEN relation[successor] ELSE {}

\* mutant: line 18 forgotten, step[item] starts empty instead of as a copy
StepItemNoCopy(relation, item) ==
    UNION {SuccessorsOrNone(relation, successor) : successor \in relation[item]}

\* lines 18-24: step[item] after the inner loop
StepItem(relation, item) ==
    relation[item] \cup
        UNION {SuccessorsOrNone(relation, successor) : successor \in relation[item]}

\* lines 15-24: `step` after one full pass over relation.items()
StepOf(relation) == [item \in DOMAIN relation |-> StepItem(relation, item)]

\* mutant: line 14 forgotten, `changed` stays True after every pass
PassChangedAlways(relation) == TRUE

\* lines 26-27: whether some item's step set holds an element relation[item] lacks
PassChanged(relation) ==
    \E item \in DOMAIN relation : StepItem(relation, item) \ relation[item] # {}

\* lines 11-12: the call starts
TcCall(rel) ==
    /\ tc_relation' = rel
    /\ tc_changed' = TRUE
    /\ tc_pc' = "loop"

\* mutant: `changed` is never set again, the loop body runs exactly once
TcPassOnce ==
    /\ tc_pc = "loop"
    /\ tc_changed
    /\ tc_changed' = FALSE
    /\ tc_relation' = StepOf(tc_relation)
    /\ UNCHANGED <<tc_input, tc_pc, tc_run, tc_first, tc_others>>

\* mutant: line 18 without .copy(): step[item] is the caller's own set, and
\* the |= of line 21 grows it in place
TcPassAliased ==
    /\ tc_pc = "loop"
    /\ tc_changed
    /\ tc_changed' = PassChanged(tc_relation)
    /\ tc_relation' = StepOf(tc_relation)
    /\ tc_input' = IF tc_run = 1 THEN StepOf(tc_relation) ELSE tc_input
    /\ UNCHANGED <<tc_pc, tc_run, tc_first, tc_others>>

\* lines 13-30: one iteration of `while changed`
TcPass ==
    /\ tc_pc = "loop"
    /\ tc_changed
    /\ tc_changed' = PassChanged(tc_relation)
    /\ tc_relation' = IF PassChanged(tc_relation) THEN StepOf(tc_relation)
                                                  ELSE tc_relation
    /\ UNCHANGED <<tc_input, tc_pc, tc_run, tc_first, tc_others>>

\* line 32 of the first call, then line 11-12 of a second call on its result
TcReturnFirst ==
    /\ tc_pc = "loop"
    /\ ~tc_changed
    /\ tc_run = 1
    /\ tc_first' = tc_relation
    /\ tc_run' = 2
    /\ TcCall(tc_relation)
    /\ UNCHANGED <<tc_input, tc_others>>

\* line 32 of the second call
TcReturnSecond ==
    /\ tc_pc = "loop"
    /\ ~tc_changed
    /\ tc_run = 2
    /\ tc_pc' = "returned"
    /\ UNCHANGED <<tc_input, tc_relation, tc_changed, tc_run, tc_first, tc_others>>

\* the whole function, as the loop computes it
RECURSIVE ClosureFrom(_)
ClosureFrom(relation) ==
    IF PassChanged(relation) THEN ClosureFrom(StepOf(relation)) ELSE relation

transitive_closure(relation) == ClosureFrom(relation)

TcInit ==
    /\ tc_input \in Relations
    /\ tc_relation = tc_input
    /\ tc_changed = TRUE
    /\ tc_pc = "loop"
    /\ tc_run = 1
    /\ tc_first = <<>>

TcIdle ==
    /\ tc_input = <<>>
    /\ tc_relation = <<>>
    /\ tc_changed = FALSE
    /\ tc_pc = "idle"
    /\ tc_run = 0
    /\ tc_first = <<>>

-----------------------------------------------------------------------------
(* Claims about transitive_closure, checked under SpecClosure *)

\* successors of an id in a relation; an id with no entry has none
Succ(relation, a) == IF a \in DOMAIN relation THEN relation[a] ELSE {}

\* C1: the closure C of R keeps every direct successor (C[a] is a superset of
\* R[a] for every key a) and is transitive: b in C[a] and c in C[b] imply
\* c in C[a], an id with no entry counting as having no successors.
C1_ClosureSupersetTransitive ==
    tc_run = 2 =>
        /\ \A a \in DOMAIN tc_input :
              a \in DOMAIN tc_first /\ tc_input[a] \subseteq tc_first[a]
        /\ \A a \in Ids : \A b \in Succ(tc_first, a) : \A c \in Succ(tc_first, b) :
              c \in Succ(tc_first, a)

\* the first call has returned a closure holding an indirect pair
C1_Witness ==
    /\ tc_run = 2
    /\ \E a \in DOMAIN tc_input : \E b \in tc_input[a] :
          /\ b \in DOMAIN tc_input
          /\ tc_input[b] \ tc_input[a] # {}
          /\ tc_input[b] \subseteq tc_first[a]

\* C9: closing the closure again returns the same relation (same keys, same
\* successor sets).
C9_ClosureIdempotent ==
    tc_pc = "returned" => tc_relation = tc_first

\* the second call has returned, on a closure that differs from the input
C9_Witness ==
    /\ tc_pc = "returned"
    /\ tc_first # tc_input
    /\ tc_relation = tc_first

-----------------------------------------------------------------------------
(* Python values *)

\* Python's None; no text equals it (a text holds one-character strings)
None == <<"None">>

\* truth value of a text-or-None: None and '' are false
Truthy(x) == x # None /\ x # <<>>

\* '{}'.format(x) of a text-or-None
Str(x) == IF x = None THEN <<"N", "o", "n", "e">> ELSE x

\* '{}'.format(n) of a natural number
RECURSIVE DecimalText(_)
DecimalText(n) ==
    IF n < 10 THEN <<ToString(n)>>
              ELSE DecimalText(n \div 10) \o <<ToString(n % 10)>>

\* str.rfind(ch), counted from 1; 0 stands for Python's -1
RFind(s, ch) ==
    IF \E i \in 1..Len(s) : s[i] = ch
    THEN CHOOSE i \in 1..Len(s) : s[i] = ch /\ \A j \in (i+1)..Len(s) : s[j] # ch
    ELSE 0

\* str.index(ch), counted from 1; 0 stands for the ValueError
Index(s, ch) ==
    IF \E i \in 1..Len(s) : s[i] = ch
    THEN CHOOSE i \in 1..Len(s) : s[i] = ch /\ \A j \in 1..(i-1) : s[j] # ch
    ELSE 0

\* s[:rfind] with rfind counted from 1: s[:-1] when the character is absent
UpToRFind(s, ch) ==
    IF RFind(s, ch) = 0 THEN SubSeq(s, 1, Len(s) - 1)
                        ELSE SubSeq(s, 1, RFind(s, ch) - 1)

\* dict[key] = val
DictSet(d, key, val) ==
    [k \in DOMAIN d \cup {key} |-> IF k = key THEN val ELSE d[k]]

\* dict[key] |= val, on a dict that holds key or a defaultdict(set)
DictAdd(d, key, val) ==
    [k \in DOMAIN d \cup {key} |->
        IF k = key THEN (IF key \in DOMAIN d THEN d[key] ELSE {}) \cup val
                   ELSE d[k]]

\* a local variable: v is evaluated once and F applied to its value
With(v, F(_)) == CHOOSE r \in {F(x) : x \in {v}} : TRUE

-----------------------------------------------------------------------------
(* Claim classifier and formatters, wikidata/__init__.py *)

PROPERTY_INSTANCE_OF == <<"P", "3", "1">>
PROPERTY_SUBCLASS_OF == <<"P", "2", "7", "9">>
PROLEPTIC_GREGORIAN_CALENDER == <<"Q", "1", "9", "8", "5", "7", "2", "7">>

\* line 46-47
_entity_id_from_uri(uri) == SubSeq(uri, RFind(uri, "/") + 1, Len(uri))

\* line 145-146
is_not_deprecated(claim) == claim.rank # "deprecated"

\* line 149-150
has_meaningful_value(claim) ==
    claim.mainsnak.snaktype \notin {"novalue", "somevalue"}

\* mutant: only the key is looked for, an empty qualifier map counts
HasQualifiersKey(claim) == "qualifiers" \in DOMAIN claim

\* line 153-154
has_qualifiers(claim) ==
    "qualifiers" \in DOMAIN claim /\ claim.qualifiers # <<>>

\* line 161-181; withLabels is `labels is not None`
format_entityid(snak, labels, withLabels) ==
    IF snak.snaktype \in {"novalue", "somevalue"} THEN None
    ELSE IF snak.datavalue.type # "wikibase-entityid" THEN None
    ELSE LET value == snak.datavalue.value
             result ==
                 IF "id" \in DOMAIN value THEN value.id
                 ELSE IF value["entity-type"] = "item"
                      THEN <<"Q">> \o DecimalText(value["numeric-id"])
                 ELSE IF value["entity-type"] = "property"
                      THEN <<"P">> \o DecimalText(value["numeric-id"])
                 ELSE <<>>
         IN  IF withLabels /\ result \in DOMAIN labels
             THEN labels[result] \o <<" ", "(">> \o result \o <<")">>
             ELSE result

\* line 157-158
maybe_entity_value(claim) == format_entityid(claim.mainsnak, <<>>, FALSE)

\* what a formatter hands back: a text (or None), or the exception it raises,
\* and the snak as the call leaves it
Returned(text, snak) == [ok |-> TRUE, err |-> "", text |-> text, snak |-> snak]
Raised(err, snak) == [ok |-> FALSE, err |-> err, text |-> None, snak |-> snak]

\* line 187-207
format_timestamp(snak, labels) ==
    LET value == snak.datavalue.value
        calendarid == _entity_id_from_uri(value.calendarmodel)
        days == SubSeq(value.time, 1, Index(value.time, "T") - 1)
        months == IF value.precision < 11 THEN UpToRFind(days, "-") ELSE days
        stamp == IF value.precision < 10 THEN UpToRFind(months, "-") ELSE months
    IN  IF Index(value.time, "T") = 0 THEN Raised("ValueError", snak)
        ELSE IF calendarid = PROLEPTIC_GREGORIAN_CALENDER
             THEN Returned(stamp, snak)
        ELSE IF calendarid \in DOMAIN labels
             THEN Returned(stamp \o <<" ", "(">> \o labels[calendarid] \o <<")">>, snak)
        \* line 196 binds `calender`; line 207 reads the unbound `calendar`
        ELSE Raised("UnboundLocalError", snak)

\* line 210-226
format_quantity(snak, labels) ==
    LET value == snak.datavalue.value
        bounds == IF "upperbound" \in DOMAIN value /\ "lowerbound" \in DOMAIN value
                  THEN <<" ", "[">> \o value.lowerbound \o <<"-", "-">>
                           \o value.upperbound \o <<"]">>
                  ELSE <<>>
        unit == _entity_id_from_uri(value.unit)
        suffix == IF value.unit # <<"1">>
                  THEN <<" ">> \o (IF unit \in DOMAIN labels THEN labels[unit] ELSE unit)
                  ELSE <<>>
    IN  Returned(value.amount \o bounds \o suffix, snak)

\* line 229-235: the payload's globe is overwritten, and only '({globe})' is
\* formatted, the first literal is returned as it stands
format_globecoordinate(snak, labels) ==
    LET value == snak.datavalue.value
        globe == _entity_id_from_uri(value.globe)
        shown == IF globe \in DOMAIN labels THEN labels[globe] ELSE globe
        after == [snak EXCEPT !.datavalue.value.globe = shown]
    IN  Returned(<<"{", "l", "a", "t", "i", "t", "u", "d", "e", "}", "N", " ",
                   "{", "l", "o", "n", "g", "i", "t", "u", "d", "e", "}", "W", " ",
                   "+", "-", "{", "p", "r", "e", "c", "i", "s", "i", "o", "n", "}",
                   " ">> \o <<"(">> \o shown \o <<")">>, after)

\* line 238-239
format_monolingualtext(snak) == Returned(snak.datavalue.value.text, snak)

\* line 242-243
format_string(snak) == Returned(snak.datavalue.value, snak)

\* line 246-258: the keys of DATATYPE_FORMATTERS
DATATYPE_FORMATTERS ==
    {"wikibase-item", "wikibase-property", "time", "quantity", "globe-coordinate",
     "monolingualtext", "string", "commonsMedia", "external-id", "math", "url"}

\* line 276: DATATYPE_FORMATTERS[datatype](snak=snak, labels=labels)
Dispatch(datatype, snak, labels) ==
    CASE datatype \in {"wikibase-item", "wikibase-property"} ->
            Returned(format_entityid(snak, labels, TRUE), snak)
      [] datatype = "time" -> format_timestamp(snak, labels)
      [] datatype = "quantity" -> format_quantity(snak, labels)
      [] datatype = "globe-coordinate" -> format_globecoordinate(snak, labels)
      [] datatype = "monolingualtext" -> format_monolingualtext(snak)
      [] OTHER -> format_string(snak)

\* repr() of the payload of a snak of no recognized datatype: such payloads
\* are texts here, shown between quotes
Repr(value) == <<"'">> \o value \o <<"'">>

\* mutant: line 280 forgotten, the datatype is never remembered
format_datavalue_forgetful(snak, labels, seen) ==
    LET quiet(r) == [ok |-> r.ok, err |-> r.err, text |-> r.text, snak |-> r.snak,
                     seen |-> seen, printed |-> <<>>]
    IN  IF snak.snaktype = "somevalue"
        THEN quiet(Returned(<<"<", "s", "o", "m", "e", "v", "a", "l", "u", "e", ">">>, snak))
        ELSE IF snak.snaktype = "novalue"
        THEN quiet(Returned(<<"<", "n", "o", "v", "a", "l", "u", "e", ">">>, snak))
        ELSE IF snak.snaktype # "value"
        THEN quiet(Raised("ValueError", snak))
        ELSE IF snak.datatype \in DATATYPE_FORMATTERS
        THEN quiet(Dispatch(snak.datatype, snak, labels))
        ELSE [ok |-> TRUE, err |-> "",
              text |-> Repr(snak.datavalue.value), snak |-> snak,
              seen |-> seen, printed |-> <<snak.datatype>>]

\* line 264-283; seen is __seen_datatypes__ before the call.  The result adds
\* the list after the call and what the call printed.
format_datavalue(snak, labels, seen) ==
    LET quiet(r) == [ok |-> r.ok, err |-> r.err, text |-> r.text, snak |-> r.snak,
                     seen |-> seen, printed |-> <<>>]
    IN  IF snak.snaktype = "somevalue"
        THEN quiet(Returned(<<"<", "s", "o", "m", "e", "v", "a", "l", "u", "e", ">">>, snak))
        ELSE IF snak.snaktype = "novalue"
        THEN quiet(Returned(<<"<", "n", "o", "v", "a", "l", "u", "e", ">">>, snak))
        ELSE IF snak.snaktype # "value"
        THEN quiet(Raised("ValueError", snak))
        ELSE IF snak.datatype \in DATATYPE_FORMATTERS
        THEN quiet(Dispatch(snak.datatype, snak, labels))
        ELSE LET first == \A i \in 1..Len(seen) : seen[i] # snak.datatype
             IN  [ok |-> TRUE, err |-> "",
                  text |-> Repr(snak.datavalue.value), snak |-> snak,
                  seen |-> IF first THEN Append(seen, snak.datatype) ELSE seen,
                  printed |-> IF first THEN <<snak.datatype>> ELSE <<>>]

-----------------------------------------------------------------------------
(* Colouring engine, context-from-dumps.py *)

\* what a colouring strategy hands back: its results dict (object -> set of
\* attribute), or the exception a formatter raised, with __seen_datatypes__
\* and what was printed on the way
Coloured(results, seen, printed) ==
    [ok |-> TRUE, err |-> "", results |-> results, seen |-> seen, printed |-> printed]

\* line 33-34
colour_none(subject, prop) == (subject :> {prop})

\* line 37-44: results[value] is assigned, not united
colour_direction(subject, prop, claim) ==
    LET results == colour_none(subject, prop)
        value == maybe_entity_value(claim)
    IN  IF Truthy(value) THEN DictSet(results, value, {<<"^">> \o prop})
                         ELSE results

\* line 48-52, on the text format_datavalue returned for the qualifier
_coloured(prop, pid, text, reverse) ==
    (IF reverse THEN <<"^">> ELSE <<>>) \o prop \o <<"@", "[">> \o pid \o <<":">>
        \o Str(text) \o <<"]">>

\* claim['qualifiers'].items() with the inner loop unrolled: the (pid,
\* qualifier) pairs in the order lines 62-63 visit them
RECURSIVE QualifierPairs(_)
QualifierPairs(items) ==
    IF items = <<>> THEN <<>>
    ELSE [k \in 1..Len(items[1][2]) |-> <<items[1][1], items[1][2][k]>>]
             \o QualifierPairs(Tail(items))

\* line 64-67 for one qualifier: the reverse label formats the qualifier
\* again, as the first format_datavalue call left it
QualifierStep(subject, prop, value, pid, qualifier, labels, acc) ==
    With(format_datavalue(qualifier, labels, acc.seen), LAMBDA fwd :
        IF ~fwd.ok
        THEN [acc EXCEPT !.ok = FALSE, !.err = fwd.err]
        ELSE With(DictAdd(acc.results, subject,
                          {_coloured(prop, pid, fwd.text, FALSE)}), LAMBDA onSubject :
            IF ~Truthy(value)
            THEN Coloured(onSubject, fwd.seen, acc.printed \o fwd.printed)
            ELSE With(format_datavalue(fwd.snak, labels, fwd.seen), LAMBDA rev :
                IF ~rev.ok
                THEN [acc EXCEPT !.ok = FALSE, !.err = rev.err,
                                 !.seen = fwd.seen,
                                 !.printed = acc.printed \o fwd.printed]
                ELSE Coloured(DictAdd(onSubject, value,
                                      {_coloured(prop, pid, rev.text, TRUE)}),
                              rev.seen,
                              acc.printed \o fwd.printed \o rev.printed))))

\* line 62-67: the loop over the pairs, left when a formatter raises
RECURSIVE QualifierLoop(_, _, _, _, _, _)
QualifierLoop(subject, prop, value, pairs, labels, acc) ==
    IF pairs = <<>> \/ ~acc.ok THEN acc
    ELSE With(QualifierStep(subject, prop, value, pairs[1][1], pairs[1][2],
                            labels, acc), LAMBDA next :
             QualifierLoop(subject, prop, value, Tail(pairs), labels, next))

\* line 47-69
colour_qualifiers(subject, prop, claim, labels, seen) ==
    IF ~has_qualifiers(claim)
    THEN Coloured(colour_direction(subject, prop, claim), seen, <<>>)
    ELSE LET value == maybe_entity_value(claim)
             start == IF Truthy(value)
                      THEN DictSet((subject :> {}), value, {})
                      ELSE (subject :> {})
         IN  QualifierLoop(subject, prop, value, QualifierPairs(claim.qualifiers),
                           labels, Coloured(start, seen, <<>>))

\* line 83-88: the edge for one direct class of the value
ClassEdge(prop, qid, labels) ==
    prop \o <<"@", "<">>
         \o (IF qid \in DOMAIN labels
             THEN labels[qid] \o <<" ", "(">> \o qid \o <<")">>
             ELSE qid)
         \o <<">">>

\* line 71-93
colour_classes(subject, prop, claim, labels, instances) ==
    LET value == maybe_entity_value(claim)
    IN  IF ~Truthy(value) \/ value \notin DOMAIN instances
        THEN colour_direction(subject, prop, claim)
        ELSE LET start == DictSet((subject :> {}), value, {})
                 edges == {ClassEdge(prop, qid, labels) : qid \in instances[value]}
                 onSubject == DictAdd(start, subject, edges)
             IN  DictAdd(onSubject, value, {<<"^">> \o edge : edge \in edges})

\* line 96-101, 120: COLOURING_MAP[colouring] applied as lines 151-156 apply it
Colour(colouring, subject, prop, claim, labels, instances, seen) ==
    CASE colouring = "none" -> Coloured(colour_none(subject, prop), seen, <<>>)
      [] colouring = "direction" ->
            Coloured(colour_direction(subject, prop, claim), seen, <<>>)
      [] colouring = "qualifiers" ->
            colour_qualifiers(subject, prop, claim, labels, seen)
      [] colouring = "classes" ->
            Coloured(colour_classes(subject, prop, claim, labels, instances),
                     seen, <<>>)

-----------------------------------------------------------------------------
(* The records the dump holds: identifiers, snaks, claims, entities *)

Q1 == <<"Q", "1">>
Q2 == <<"Q", "2">>
Q3 == <<"Q", "3">>
Q4 == <<"Q", "4">>
Q5 == <<"Q", "5">>
Q6 == <<"Q", "6">>
Q7 == <<"Q", "7">>
Q8 == <<"Q", "8">>
Q9 == <<"Q", "9">>
P1 == <<"P", "1">>
P2 == <<"P", "2">>
P3 == <<"P", "3">>
P17 == <<"P", "1", "7">>
P18 == <<"P", "1", "8">>
P585 == <<"P", "5", "8", "5">>
P625 == <<"P", "6", "2", "5">>
\* a calendar model with a label, one without, and a unit
LabelledCalendar == <<"Q", "1", "2">>
UnlabelledCalendar == <<"Q", "1", "3">>
Kilogram == <<"Q", "1", "1">>

\* the concept URI of an entity
EntityUri(id) ==
    <<"h", "t", "t", "p", ":", "/", "/", "w", "w", "w", ".", "w", "i", "k", "i",
      "d", "a", "t", "a", ".", "o", "r", "g", "/", "e", "n", "t", "i", "t", "y",
      "/">> \o id

\* an entity-reference snak whose payload carries the id
EntitySnak(id) ==
    [snaktype |-> "value", datatype |-> "wikibase-item",
     datavalue |-> [type |-> "wikibase-entityid",
                    value |-> ("entity-type" :> "item") @@ ("id" :> id)]]

\* an entity-reference snak of the older dump format: entity type and number
NumericEntitySnak(etype, n) ==
    [snaktype |-> "value", datatype |-> "wikibase-item",
     datavalue |-> [type |-> "wikibase-entityid",
                    value |-> ("entity-type" :> etype) @@ ("numeric-id" :> n)]]

StringSnak(datatype, text) ==
    [snaktype |-> "value", datatype |-> datatype,
     datavalue |-> [type |-> "string", value |-> text]]

TimeSnak(time, precision, calendar) ==
    [snaktype |-> "value", datatype |-> "time",
     datavalue |-> [type |-> "time",
                    value |-> [time |-> time, precision |-> precision,
                               calendarmodel |-> EntityUri(calendar)]]]

QuantitySnak(amount, unit) ==
    [snaktype |-> "value", datatype |-> "quantity",
     datavalue |-> [type |-> "quantity",
                    value |-> [amount |-> amount, unit |-> unit]]]

BoundedQuantitySnak(amount, lower, upper, unit) ==
    [snaktype |-> "value", datatype |-> "quantity",
     datavalue |-> [type |-> "quantity",
                    value |-> [amount |-> amount, unit |-> unit,
                               lowerbound |-> lower, upperbound |-> upper]]]

GlobeSnak(globe) ==
    [snaktype |-> "value", datatype |-> "globe-coordinate",
     datavalue |-> [type |-> "globecoordinate",
                    value |-> [latitude |-> <<"1">>, longitude |-> <<"2">>,
                               precision |-> <<"0">>, globe |-> EntityUri(globe)]]]

MonolingualSnak(text) ==
    [snaktype |-> "value", datatype |-> "monolingualtext",
     datavalue |-> [type |-> "monolingualtext",
                    value |-> [text |-> text, language |-> "en"]]]

\* a snak of a datatype DATATYPE_FORMATTERS does not know
UnknownSnak(datatype, payload) ==
    [snaktype |-> "value", datatype |-> datatype,
     datavalue |-> [type |-> "string", value |-> payload]]

\* "no value", "unknown value", and a snaktype the dump format does not define
MarkerSnak(snaktype, datatype) == [snaktype |-> snaktype, datatype |-> datatype]

Day == <<"+", "2", "0", "0", "1", "-", "1", "2", "-", "3", "1", "T",
         "0", "0", ":", "0", "0", ":", "0", "0", "Z">>

\* a claim without a 'qualifiers' key, and one with the key
Claim(rank, mainsnak) == [rank |-> rank, mainsnak |-> mainsnak]
QualifiedClaim(rank, mainsnak, qualifiers) ==
    [rank |-> rank, mainsnak |-> mainsnak, qualifiers |-> qualifiers]

\* the claims the strategies are applied to
ClaimPool ==
    << Claim("normal", EntitySnak(Q2)),
       QualifiedClaim("normal", NumericEntitySnak("item", 1), <<>>),
       Claim("normal", StringSnak("string", <<"x">>)),
       Claim("deprecated", EntitySnak(Q5)),
       Claim("normal", MarkerSnak("novalue", "wikibase-item")),
       QualifiedClaim("normal", EntitySnak(Q2),
           << <<P585, <<TimeSnak(Day, 9, PROLEPTIC_GREGORIAN_CALENDER)>> >>,
              <<P1, <<EntitySnak(Q5), MarkerSnak("somevalue", "string")>> >> >>),
       QualifiedClaim("normal", EntitySnak(Q3), << <<P625, <<GlobeSnak(Q6)>> >> >>),
       QualifiedClaim("normal", StringSnak("url", <<"u">>),
           << <<P585, <<TimeSnak(Day, 11, UnlabelledCalendar)>> >> >>),
       QualifiedClaim("normal", EntitySnak(Q9),
           << <<P2, <<UnknownSnak("musical-notation", <<"c">>)>> >> >>),
       QualifiedClaim("preferred", EntitySnak(Q7),
           << <<P3, <<BoundedQuantitySnak(<<"+", "5">>, <<"+", "4">>, <<"+", "6">>,
                                          EntityUri(Kilogram)),
                      QuantitySnak(<<"+", "5">>, <<"1">>)>> >>,
              <<P585, <<TimeSnak(Day, 10, LabelledCalendar)>> >> >>),
       Claim("normal", NumericEntitySnak("lexeme", 1)),
       QualifiedClaim("normal", NumericEntitySnak("property", 17),
           << <<P1, <<>> >>,
              <<P2, <<MonolingualSnak(<<"m">>),
                      UnknownSnak("musical-notation", <<"d">>)>> >> >>) >>

\* the index file's tables (labels, instances) and the direct subclass-of
\* relation its `subclasses` is the closure of
IndexLabels ==
    (Q5 :> <<"h", "u", "m">>) @@ (Q6 :> <<"a", "/", "b">>)
        @@ (LabelledCalendar :> <<"j", "u", "l">>) @@ (Kilogram :> <<"k", "g">>)

IndexInstances == (Q2 :> {Q5, Q6}) @@ (Q3 :> {Q5})

DirectSubclasses == (Q7 :> {Q5}) @@ (Q8 :> {Q7})

IndexSubclasses == transitive_closure(DirectSubclasses)

\* an entity: its id, its label per language and its claims, property by
\* property in the order of the record
Entity(id, labels, claims) == [id |-> id, labels |-> labels, claims |-> claims]

NoLabel == <<>>
EnLabel(text) == [en |-> [language |-> "en", value |-> text]]

\* the entities a dump is made of
Entities ==
    << Entity(Q1, EnLabel(<<"o", "n", "e">>),
           << <<P17, <<ClaimPool[1], ClaimPool[6]>> >>,
              <<PROPERTY_INSTANCE_OF, <<Claim("normal", EntitySnak(Q5))>> >> >>),
       Entity(Q2, NoLabel,
           << <<P17, <<ClaimPool[2]>> >>,
              <<PROPERTY_INSTANCE_OF, <<ClaimPool[4], Claim("normal", EntitySnak(Q7))>> >>,
              <<PROPERTY_SUBCLASS_OF, <<Claim("normal", EntitySnak(Q5)),
                                        Claim("deprecated", EntitySnak(Q6))>> >>,
              <<P18, <<ClaimPool[3]>> >> >>),
       Entity(Q3, [de |-> [language |-> "de", value |-> <<"d">>]],
           << <<P17, <<Claim("normal", EntitySnak(Q3)), ClaimPool[7]>> >>,
              <<PROPERTY_INSTANCE_OF, <<ClaimPool[4]>> >> >>),
       Entity(Q4, EnLabel(<<"f">>),
           << <<P17, <<ClaimPool[9]>> >>,
              <<PROPERTY_INSTANCE_OF, <<ClaimPool[5], ClaimPool[3]>> >>,
              <<PROPERTY_SUBCLASS_OF, <<ClaimPool[5], ClaimPool[11]>> >>,
              <<P18, <<ClaimPool[3]>> >> >>),
       Entity(Q9, NoLabel,
           << <<PROPERTY_INSTANCE_OF, <<Claim("normal", EntitySnak(Q8))>> >>,
              <<P17, <<ClaimPool[8]>> >> >>) >>

-----------------------------------------------------------------------------
(* process_properties.process_entity, context-from-dumps.py:104-168 *)

\* the entity restriction set read from the entity file
Restriction == {Q1, Q2, Q3, Q4, P17, PROPERTY_INSTANCE_OF}

\* the options of a run (lines 104-112, 223-247).  filter_property and
\* filter_value are a text or None; `restricted` is `filter_entities is not
\* None`; properties is used for membership only.
Configs ==
    {c \in [colouring : {"none", "direction", "qualifiers", "classes"},
            properties : {{}, {P17}},
            filter_property : {None, PROPERTY_INSTANCE_OF},
            filter_value : {None, Q5},
            restricted : BOOLEAN,
            filter_entities : {{}, Restriction},
            labels : {IndexLabels},
            instances : {IndexInstances},
            subclasses : {IndexSubclasses}] :
        ~c.restricted => c.filter_entities = {}}

\* `prop in entity['claims']` and entity['claims'][prop]
HasProperty(entity, prop) ==
    \E k \in 1..Len(entity.claims) : entity.claims[k][1] = prop

ClaimsOf(entity, prop) ==
    entity.claims[CHOOSE k \in 1..Len(entity.claims) : entity.claims[k][1] = prop][2]

\* line 114-117
_matches(config, pid) ==
    /\ config.properties = {} \/ pid \in config.properties
    /\ ~config.restricted \/ config.filter_entities = {}
           \/ pid \in config.filter_entities

\* mutant: line 133 forgotten, a deprecated claim can match
FilterLoopAnyRank(config, claims, found) ==
    \/ found
    \/ \E k \in 1..Len(claims) :
          LET value == maybe_entity_value(claims[k])
          IN  /\ Truthy(value)
              /\ \/ value = config.filter_value
                 \/ /\ value \in DOMAIN config.subclasses
                    /\ config.filter_value \in config.subclasses[value]

\* line 131-141: `found` after the loop over the filter property's claims
RECURSIVE FilterLoop(_, _, _)
FilterLoop(config, claims, found) ==
    IF claims = <<>> THEN found
    ELSE LET claim == Head(claims)
             value == maybe_entity_value(claim)
         IN  IF ~is_not_deprecated(claim)
             THEN FilterLoop(config, Tail(claims), found)
             ELSE IF ~Truthy(value)
             THEN FilterLoop(config, Tail(claims), found)
             ELSE IF value = config.filter_value
             THEN FilterLoop(config, Tail(claims), TRUE)
             ELSE IF /\ value \in DOMAIN config.subclasses
                     /\ config.filter_value \in config.subclasses[value]
             THEN FilterLoop(config, Tail(claims), TRUE)
             ELSE FilterLoop(config, Tail(claims), found)

\* line 124-143: whether process_entity returns before the loop over the claims
ReturnsEarly(config, eid, entity) ==
    \/ config.restricted /\ eid \notin config.filter_entities
    \/ /\ config.filter_value # None
       /\ \/ ~HasProperty(entity, config.filter_property)
          \/ ~FilterLoop(config, ClaimsOf(entity, config.filter_property), FALSE)

\* mutant: lines 159-162 forgotten, no claim is skipped for its value
ValueOutsideNever(config, claim) == FALSE

\* line 159-162: the claim is skipped, after it was coloured
ValueOutside(config, claim) ==
    /\ config.restricted
    /\ Truthy(maybe_entity_value(claim))
    /\ maybe_entity_value(claim) \notin config.filter_entities

\* entity['claims'].items() with the inner loop unrolled: the (prop, claim)
\* pairs in the order lines 145 and 148 visit them
RECURSIVE ClaimPairs(_)
ClaimPairs(items) ==
    IF items = <<>> THEN <<>>
    ELSE [k \in 1..Len(items[1][2]) |-> <<items[1][1], items[1][2][k]>>]
             \o ClaimPairs(Tail(items))

\* line 164-165: result[ent] |= coloured[ent] for every ent
Merge(result, coloured) ==
    [ent \in DOMAIN result \cup DOMAIN coloured |->
        (IF ent \in DOMAIN result THEN result[ent] ELSE {})
            \cup (IF ent \in DOMAIN coloured THEN coloured[ent] ELSE {})]

\* line 146-165 for one claim of one property; acc carries `result`,
\* __seen_datatypes__ and what was printed
ClaimStep(config, eid, prop, claim, acc) ==
    IF ~(/\ _matches(config, prop)
         /\ is_not_deprecated(claim)
         /\ has_meaningful_value(claim))
    THEN acc
    ELSE With(Colour(config.colouring, eid, prop, claim, config.labels,
                     config.instances, acc.seen), LAMBDA coloured :
        IF ~coloured.ok
        THEN [acc EXCEPT !.ok = FALSE, !.err = coloured.err,
                         !.seen = coloured.seen,
                         !.printed = acc.printed \o coloured.printed]
        ELSE IF ValueOutside(config, claim)
        THEN Coloured(acc.results, coloured.seen, acc.printed \o coloured.printed)
        ELSE Coloured(Merge(acc.results, coloured.results), coloured.seen,
                      acc.printed \o coloured.printed))

\* line 145-165: the loop over the claims, left when a formatter raises
RECURSIVE ClaimLoop(_, _, _, _)
ClaimLoop(config, eid, pairs, acc) ==
    IF pairs = <<>> \/ ~acc.ok THEN acc
    ELSE With(ClaimStep(config, eid, pairs[1][1], pairs[1][2], acc), LAMBDA next :
             ClaimLoop(config, eid, Tail(pairs), next))

\* line 113-167: `result` (bg is always empty), or the exception raised
process_entity(config, eid, entity, seen) ==
    IF ReturnsEarly(config, eid, entity)
    THEN Coloured(<<>>, seen, <<>>)
    ELSE ClaimLoop(config, eid, ClaimPairs(entity.claims), Coloured(<<>>, seen, <<>>))

-----------------------------------------------------------------------------
(* context_from_dump, wikidata/__init__.py:108-134 *)

\* line 111-113
EmptyContext == [objects |-> {}, attributes |-> {}, incidence |-> <<>>]

\* mutant: line 123 assigns the entity's attributes instead of uniting them
FoldAssign(ctx, properties) ==
    [objects |-> ctx.objects \cup DOMAIN properties,
     attributes |-> ctx.attributes
                        \cup UNION {properties[eid] : eid \in DOMAIN properties},
     incidence |-> [eid \in DOMAIN ctx.incidence \cup DOMAIN properties |->
                       IF eid \in DOMAIN properties THEN properties[eid]
                                                    ELSE ctx.incidence[eid]]]

\* line 120-123: one entity's result folded into the context
Fold(ctx, properties) ==
    [objects |-> ctx.objects \cup DOMAIN properties,
     attributes |-> ctx.attributes
                        \cup UNION {properties[eid] : eid \in DOMAIN properties},
     incidence |-> Merge(ctx.incidence, properties)]

\* line 115-123 and process_entity: one entity read, coloured and folded
ReadEntity(i) ==
    \E out \in {process_entity(options, Entities[i].id, Entities[i], seen_datatypes)} :
        /\ acc_pc = "reading"
        /\ i \in pending
        /\ out.ok
        /\ pending' = pending \ {i}
        /\ context' = Fold(context, out.results)
        /\ acc_results' = DictSet(acc_results, i, out.results)
        /\ seen_datatypes' = out.seen
        /\ log' = log \o out.printed
        /\ UNCHANGED <<options, dump, acc_pc, acc_others>>

\* line 118: process_entity raises (a formatter did); nothing catches it
ReadEntityRaises(i) ==
    \E out \in {process_entity(options, Entities[i].id, Entities[i], seen_datatypes)} :
        /\ acc_pc = "reading"
        /\ i \in pending
        /\ ~out.ok
        /\ acc_pc' = "failed"
        /\ seen_datatypes' = out.seen
        /\ log' = log \o out.printed
        /\ UNCHANGED <<options, dump, pending, context, acc_results, acc_others>>

\* line 134: the dump is exhausted, the context is handed to postprocess
ReturnContext ==
    /\ acc_pc = "reading"
    /\ pending = {}
    /\ acc_pc' = "done"
    /\ UNCHANGED <<options, dump, pending, context, acc_results, fmt_vars, acc_others>>

\* a run: any options, any dump made of Entities, read in any order
AccInit ==
    /\ options \in Configs
    /\ dump \in SUBSET (1..Len(Entities))
    /\ pending = dump
    /\ context = EmptyContext
    /\ acc_results = <<>>
    /\ acc_pc = "reading"

AccIdle ==
    /\ options = <<>>
    /\ dump = {}
    /\ pending = {}
    /\ context = EmptyContext
    /\ acc_results = <<>>
    /\ acc_pc = "idle"

\* line 261: the module is loaded
FmtInit ==
    /\ seen_datatypes = <<>>
    /\ log = <<>>

AccNext ==
    \/ \E i \in 1..Len(Entities) : ReadEntity(i)
    \/ \E i \in 1..Len(Entities) : ReadEntityRaises(i)
    \/ ReturnContext

-----------------------------------------------------------------------------
(* One call of each colouring strategy on the same claim *)

Strategies == {"none", "direction", "qualifiers", "classes"}

\* COLOURING_MAP[colouring](subject=..., prop=..., claim=..., labels=...,
\* instances=..., subclasses=...) in a fresh process
CallStrategy(colouring) ==
    /\ colouring \notin DOMAIN col_out
    /\ col_out' = DictSet(col_out, colouring,
                      Colour(colouring, col_subject, col_prop, ClaimPool[col_claim],
                             IndexLabels, IndexInstances, <<>>))
    /\ UNCHANGED <<col_subject, col_prop, col_claim, col_others>>

ColInit ==
    /\ col_subject \in {Q1, Q2, Q3}
    /\ col_prop \in {P17, PROPERTY_INSTANCE_OF}
    /\ col_claim \in 1..Len(ClaimPool)
    /\ col_out = <<>>

ColIdle ==
    /\ col_subject = <<>>
    /\ col_prop = <<>>
    /\ col_claim = 0
    /\ col_out = <<>>

ColNext == \E colouring \in Strategies : CallStrategy(colouring)

-----------------------------------------------------------------------------
(* direct_relations_from_dump, indexes-from-dumps.py:35-60 *)

\* line 43-45, language='en'
LabelsAfter(labels, entity) ==
    IF "en" \in DOMAIN entity.labels
    THEN DictSet(labels, entity.id, entity.labels["en"].value)
    ELSE labels

\* line 48-51 (and 54-57): the loop over the claims of one property
RECURSIVE RelationLoop(_, _, _)
RelationLoop(relation, eid, claims) ==
    IF claims = <<>> THEN relation
    ELSE LET superclass == maybe_entity_value(Head(claims))
         IN  IF Truthy(superclass)
             THEN RelationLoop(DictAdd(relation, eid, {superclass}), eid, Tail(claims))
             ELSE RelationLoop(relation, eid, Tail(claims))

\* line 47-51 (and 53-57)
RelationAfter(relation, entity, prop) ==
    IF HasProperty(entity, prop)
    THEN RelationLoop(relation, entity.id, ClaimsOf(entity, prop))
    ELSE relation

\* line 40-57: one entity read
IndexEntity(i) ==
    /\ ix_pc = "reading"
    /\ i \in ix_pending
    /\ ix_pending' = ix_pending \ {i}
    /\ ix_labels' = LabelsAfter(ix_labels, Entities[i])
    /\ ix_subclasses' = RelationAfter(ix_subclasses, Entities[i], PROPERTY_SUBCLASS_OF)
    /\ ix_instances' = RelationAfter(ix_instances, Entities[i], PROPERTY_INSTANCE_OF)
    /\ UNCHANGED <<ix_dump, ix_pc, ix_others>>

\* line 60
IndexReturn ==
    /\ ix_pc = "reading"
    /\ ix_pending = {}
    /\ ix_pc' = "returned"
    /\ UNCHANGED <<ix_dump, ix_pending, ix_labels, ix_instances, ix_subclasses, ix_others>>

\* line 36-38, on any dump made of Entities, read in any order
IxInit ==
    /\ ix_dump \in SUBSET (1..Len(Entities))
    /\ ix_pending = ix_dump
    /\ ix_labels = <<>>
    /\ ix_instances = <<>>
    /\ ix_subclasses = <<>>
    /\ ix_pc = "reading"

IxIdle ==
    /\ ix_dump = {}
    /\ ix_pending = {}
    /\ ix_labels = <<>>
    /\ ix_instances = <<>>
    /\ ix_subclasses = <<>>
    /\ ix_pc = "idle"

IxNext == (\E i \in 1..Len(Entities) : IndexEntity(i)) \/ IndexReturn

-----------------------------------------------------------------------------
(* A process that calls format_datavalue again and again *)

\* the calls a run makes at most
MaxCalls == 4

\* the snaks handed to format_datavalue
SnakPool ==
    << UnknownSnak("musical-notation", <<"c">>),
       UnknownSnak("musical-notation", <<"d">>),
       UnknownSnak("geo-shape", <<"g">>),
       MarkerSnak("somevalue", "tabular-data"),
       MarkerSnak("novalue", "geo-shape"),
       MarkerSnak("deleted", "string"),
       StringSnak("external-id", <<"x">>),
       EntitySnak(Q5),
       GlobeSnak(Q6),
       TimeSnak(Day, 9, PROLEPTIC_GREGORIAN_CALENDER),
       TimeSnak(Day, 10, LabelledCalendar),
       TimeSnak(Day, 11, UnlabelledCalendar) >>

\* the label tables of a run
LabelTables ==
    << IndexLabels,
       (Q6 :> <<"M", "o", "o", "n">>) @@ (UnlabelledCalendar :> <<"c", "a", "l">>) >>

\* one call that returns
Render(i) ==
    LET out == format_datavalue(r_snaks[i], LabelTables[r_labels], seen_datatypes)
    IN  /\ Len(r_calls) < MaxCalls
        /\ out.ok
        /\ r_snaks' = [r_snaks EXCEPT ![i] = out.snak]
        /\ seen_datatypes' = out.seen
        /\ log' = log \o out.printed
        /\ r_calls' = Append(r_calls, [snak |-> i, argument |-> r_snaks[i],
                                       ok |-> TRUE, text |-> out.text,
                                       printed |-> out.printed])
        /\ UNCHANGED <<r_labels, r_others>>

\* one call that raises; the caller goes on
RenderRaises(i) ==
    LET out == format_datavalue(r_snaks[i], LabelTables[r_labels], seen_datatypes)
    IN  /\ Len(r_calls) < MaxCalls
        /\ ~out.ok
        /\ r_snaks' = [r_snaks EXCEPT ![i] = out.snak]
        /\ seen_datatypes' = out.seen
        /\ log' = log \o out.printed
        /\ r_calls' = Append(r_calls, [snak |-> i, argument |-> r_snaks[i],
                                       ok |-> FALSE, text |-> None,
                                       printed |-> out.printed])
        /\ UNCHANGED <<r_labels, r_others>>

RInit ==
    /\ r_labels \in 1..Len(LabelTables)
    /\ r_snaks = SnakPool
    /\ r_calls = <<>>

RIdle ==
    /\ r_labels = 0
    /\ r_snaks = <<>>
    /\ r_calls = <<>>

RNext ==
    \/ \E i \in 1..Len(SnakPool) : Render(i)
    \/ \E i \in 1..Len(SnakPool) : RenderRaises(i)

-----------------------------------------------------------------------------
(* Specifications *)

TcNext == TcPass \/ TcReturnFirst \/ TcReturnSecond

\* transitive_closure called on a relation, then on its own result
InitClosure == TcInit /\ FmtInit /\ RIdle /\ AccIdle /\ ColIdle /\ IxIdle
SpecClosure == InitClosure /\ [][TcNext]_vars

\* the same calls, run to the end: the interpreter goes on executing the
\* loop and the return as long as there is a next statement
SpecClosureLive == SpecClosure /\ WF_vars(TcNext)

\* context-from-dumps.py: a dump folded into a context
Init == TcIdle /\ FmtInit /\ RIdle /\ AccInit /\ ColIdle /\ IxIdle
Next == AccNext
Spec == Init /\ [][Next]_vars

\* the four colouring strategies called on one claim
InitColour == TcIdle /\ FmtInit /\ RIdle /\ AccIdle /\ ColInit /\ IxIdle
SpecColour == InitColour /\ [][ColNext]_vars

\* indexes-from-dumps.py: a dump read into the direct relations
InitIndex == TcIdle /\ FmtInit /\ RIdle /\ AccIdle /\ ColIdle /\ IxInit
SpecIndex == InitIndex /\ [][IxNext]_vars

\* format_datavalue called on any snaks in any order
InitRender == TcIdle /\ FmtInit /\ RInit /\ AccIdle /\ ColIdle /\ IxIdle
SpecRender == InitRender /\ [][RNext]_vars

-----------------------------------------------------------------------------
(* Claims about the context accumulator, checked under Spec *)

\* the entities read so far
Read == DOMAIN acc_results

\* the context the fold gives when the entities of S are read by rising index
RECURSIVE FoldInOrder(_, _)
FoldInOrder(S, ctx) ==
    IF S = {} THEN ctx
    ELSE LET i == CHOOSE i \in S : \A j \in S : i <= j
         IN  With(Fold(ctx, process_entity(options, Entities[i].id, Entities[i],
                                           <<>>).results),
                  LAMBDA next : FoldInOrder(S \ {i}, next))

\* C2: whatever the order the entities of a dump are read in, under any
\* options, the final context (objects, attributes, incidence) is the one
\* reading them by rising index gives.
C2_FoldCommutes ==
    acc_pc = "done" => context = FoldInOrder(dump, EmptyContext)

\* a run has ended in which two entities gave the same object different
\* attribute sets
C2_Witness ==
    /\ acc_pc = "done"
    /\ \E i \in Read : \E j \in Read \ {i} :
          \E o \in DOMAIN acc_results[i] \cap DOMAIN acc_results[j] :
              /\ acc_results[i][o] \ acc_results[j][o] # {}
              /\ acc_results[j][o] \ acc_results[i][o] # {}

\* a value filter is configured: a filter property and a filter value
Filtering == options.filter_property # None /\ options.filter_value # None

\* entity i has a non-deprecated claim on the filter property whose entity
\* value is the filter value or has it among its subclass-of successors
HasFilterClaim(i) ==
    /\ HasProperty(Entities[i], options.filter_property)
    /\ \E k \in 1..Len(ClaimsOf(Entities[i], options.filter_property)) :
          LET claim == ClaimsOf(Entities[i], options.filter_property)[k]
              value == maybe_entity_value(claim)
          IN  /\ claim.rank # "deprecated"
              /\ Truthy(value)
              /\ \/ value = options.filter_value
                 \/ options.filter_value \in Succ(options.subclasses, value)

\* the claims of entity i that count under the entity restriction, with the
\* condition on the claim's value left to ValueOk; the other filters (value
\* filter, property allow-list, rank, meaningful value) apply as well
Contributing(i, ValueOk(_)) ==
    LET pairs == ClaimPairs(Entities[i].claims)
    IN  {k \in 1..Len(pairs) :
            /\ options.filter_value = None \/ HasFilterClaim(i)
            /\ Entities[i].id \in options.filter_entities
            /\ pairs[k][1] \in options.filter_entities
            /\ options.properties = {} \/ pairs[k][1] \in options.properties
            /\ is_not_deprecated(pairs[k][2])
            /\ has_meaningful_value(pairs[k][2])
            /\ ValueOk(pairs[k][2])}

\* what the claims of entity i in K give together
ResultOf(i, K) ==
    LET pairs == ClaimPairs(Entities[i].claims)
        given(k) == Colour(options.colouring, Entities[i].id, pairs[k][1],
                           pairs[k][2], options.labels, options.instances,
                           <<>>).results
    IN  [o \in UNION {DOMAIN given(k) : k \in K} |->
            UNION {given(k)[o] : k \in {n \in K : o \in DOMAIN given(n)}}]

\* the main value is an entity of the restriction set
ValueInside(claim) ==
    /\ Truthy(maybe_entity_value(claim))
    /\ maybe_entity_value(claim) \in options.filter_entities

\* the main value is no entity reference, or an entity of the restriction set
ValueNotOutside(claim) ==
    \/ ~Truthy(maybe_entity_value(claim))
    \/ maybe_entity_value(claim) \in options.filter_entities

\* C6 as stated: with an entity restriction set E, what an entity gives is
\* what its claims with subject, property and value in E give, and every
\* object of the context is in E.
C6_Original ==
    options.restricted =>
        /\ \A i \in Read :
              acc_results[i] = ResultOf(i, Contributing(i, ValueInside))
        /\ context.objects \subseteq options.filter_entities

\* C6, amended: with an entity restriction set E, what an entity gives is
\* what its claims give whose subject and property are in E and whose main
\* value is in E or is no entity reference; a claim whose entity value is
\* outside E gives nothing, and every object of the context is in E.
C6_RestrictionExcludes ==
    options.restricted =>
        /\ \A i \in Read :
              acc_results[i] = ResultOf(i, Contributing(i, ValueNotOutside))
        /\ context.objects \subseteq options.filter_entities

\* an entity of E was read that has a live claim on a property of E whose
\* value is an entity outside E, and it gave something all the same
C6_Witness ==
    /\ options.restricted
    /\ \E i \in Read :
          /\ DOMAIN acc_results[i] # {}
          /\ \E k \in Contributing(i, LAMBDA claim : TRUE) :
                ~ValueNotOutside(ClaimPairs(Entities[i].claims)[k][2])

\* C7 as stated: with a value filter configured, an entity gives something if
\* and only if it has such a claim.
C7_Original ==
    Filtering =>
        \A i \in Read : DOMAIN acc_results[i] # {} <=> HasFilterClaim(i)

\* C7, amended: with a value filter configured, an entity gives something
\* only if it has such a claim; and when neither a property allow-list nor an
\* entity restriction is configured, every entity that has such a claim gives
\* something.
C7_ValueFilter ==
    Filtering =>
        \A i \in Read :
            /\ DOMAIN acc_results[i] # {} => HasFilterClaim(i)
            /\ (HasFilterClaim(i) /\ options.properties = {} /\ ~options.restricted)
                   => DOMAIN acc_results[i] # {}

\* with a value filter and no other filter, an entity was read that passes by
\* a subclass of the filter value, and one whose only matching claim is
\* deprecated, which gave nothing
C7_Witness ==
    /\ Filtering
    /\ options.properties = {}
    /\ ~options.restricted
    /\ \E i \in Read :
          /\ DOMAIN acc_results[i] # {}
          /\ HasFilterClaim(i)
          /\ \A k \in 1..Len(ClaimsOf(Entities[i], options.filter_property)) :
                LET claim == ClaimsOf(Entities[i], options.filter_property)[k]
                IN  is_not_deprecated(claim)
                        => maybe_entity_value(claim) # options.filter_value
    /\ \E j \in Read :
          /\ DOMAIN acc_results[j] = {}
          /\ HasProperty(Entities[j], options.filter_property)
          /\ \E k \in 1..Len(ClaimsOf(Entities[j], options.filter_property)) :
                LET claim == ClaimsOf(Entities[j], options.filter_property)[k]
                IN  /\ ~is_not_deprecated(claim)
                    /\ maybe_entity_value(claim) = options.filter_value

-----------------------------------------------------------------------------
(* Claims about the colouring strategies, checked under SpecColour *)

\* the claim the strategies are called on, and the entity its main value
\* refers to (None or '' when it refers to none)
TheClaim == ClaimPool[col_claim]
TheValue == maybe_entity_value(TheClaim)

Called(colouring) == colouring \in DOMAIN col_out

\* C3: the direction strategy returns all that the none strategy returns,
\* the subject carrying the bare property P, and gives the entity v the main
\* value refers to (v may be the subject) the attribute ^P; without such an
\* entity the result is exactly {s: {P}}.
C3_DirectionAddsReverse ==
    (Called("direction") /\ Called("none")) =>
        LET result == col_out["direction"].results
            none == col_out["none"].results
        IN  /\ \A o \in DOMAIN none : o \in DOMAIN result /\ none[o] \subseteq result[o]
            /\ col_prop \in result[col_subject]
            /\ Truthy(TheValue) =>
                  /\ TheValue \in DOMAIN result
                  /\ (<<"^">> \o col_prop) \in result[TheValue]
            /\ ~Truthy(TheValue) => result = (col_subject :> {col_prop})

\* the claim has no qualifiers: no qualifier map, or an empty one
Unqualified == "qualifiers" \notin DOMAIN TheClaim \/ TheClaim.qualifiers = <<>>

\* the claim's value has no recorded direct classes, or is no entity
Unclassified == ~Truthy(TheValue) \/ TheValue \notin DOMAIN IndexInstances

\* C4: on a claim without qualifiers the qualifiers strategy returns what the
\* direction strategy returns, and on a claim whose value is no entity or has
\* no recorded classes so does the classes strategy; where the direction
\* strategy adds a reverse edge, neither returns what the none strategy does.
C4_FallbackIsDirection ==
    /\ (Called("qualifiers") /\ Called("direction") /\ Unqualified) =>
          /\ col_out["qualifiers"].ok
          /\ col_out["qualifiers"].results = col_out["direction"].results
    /\ (Called("classes") /\ Called("direction") /\ Unclassified) =>
          col_out["classes"].results = col_out["direction"].results
    /\ (Called("qualifiers") /\ Called("none") /\ Unqualified /\ Truthy(TheValue)) =>
          col_out["qualifiers"].results # col_out["none"].results
    /\ (Called("classes") /\ Called("none") /\ Unclassified /\ Truthy(TheValue)) =>
          col_out["classes"].results # col_out["none"].results

\* all four strategies were called on a claim without qualifiers whose value
\* is an entity other than the subject, with no recorded classes
C4_Witness ==
    /\ DOMAIN col_out = Strategies
    /\ Unqualified
    /\ Truthy(TheValue)
    /\ Unclassified
    /\ TheValue # col_subject
    /\ col_out["qualifiers"].results = col_out["direction"].results
    /\ col_out["classes"].results = col_out["direction"].results

\* the text of a qualifier snak: what format_datavalue returns for it
TextOf(qualifier) == format_datavalue(qualifier, IndexLabels, <<>>).text

\* the attributes P@[qp:text], or ^P@[qp:text], one per qualifier of the claim
QualifierAttributes(reverse) ==
    LET pairs == QualifierPairs(TheClaim.qualifiers)
    IN  {(IF reverse THEN <<"^">> ELSE <<>>) \o col_prop \o <<"@", "[">>
             \o pairs[k][1] \o <<":">> \o Str(TextOf(pairs[k][2])) \o <<"]">> :
         k \in 1..Len(pairs)}

\* C5: on a claim with at least one qualifier the qualifiers strategy gives
\* the subject exactly the attributes P@[qp:text], one per (qp, qualifier)
\* pair, and the entity v of the main value exactly the attributes
\* ^P@[qp:text] for the same pairs; P and ^P are not added and no other
\* object appears.
C5_QualifierAttributes ==
    (Called("qualifiers") /\ ~Unqualified) =>
        LET out == col_out["qualifiers"]
            forward == QualifierAttributes(FALSE)
            backward == QualifierAttributes(TRUE)
        IN  /\ out.ok
            /\ DOMAIN out.results
                   = {col_subject} \cup (IF Truthy(TheValue) THEN {TheValue} ELSE {})
            /\ out.results[col_subject]
                   = forward \cup (IF TheValue = col_subject THEN backward ELSE {})
            /\ Truthy(TheValue) =>
                  out.results[TheValue]
                      = backward \cup (IF TheValue = col_subject THEN forward ELSE {})

-----------------------------------------------------------------------------
(* Claims about the index builder, checked under SpecIndex *)

\* entity i has a claim on prop that is not deprecated, carries a meaningful
\* value and refers to x
HasLiveClaim(i, prop, x) ==
    /\ HasProperty(Entities[i], prop)
    /\ \E k \in 1..Len(ClaimsOf(Entities[i], prop)) :
          LET claim == ClaimsOf(Entities[i], prop)[k]
          IN  /\ claim.rank # "deprecated"
              /\ claim.mainsnak.snaktype \notin {"novalue", "somevalue"}
              /\ maybe_entity_value(claim) = x

\* C8: an id x is in subclasses[e] (instances[e]) only for a subclass-of
\* (instance-of) claim of e that is not deprecated and carries a meaningful
\* value referring to x; a deprecated claim adds nothing.
C8_OnlyLiveClaimsIndexed ==
    /\ \A e \in DOMAIN ix_subclasses : \A x \in ix_subclasses[e] :
          \E i \in ix_dump \ ix_pending :
              Entities[i].id = e /\ HasLiveClaim(i, PROPERTY_SUBCLASS_OF, x)
    /\ \A e \in DOMAIN ix_instances : \A x \in ix_instances[e] :
          \E i \in ix_dump \ ix_pending :
              Entities[i].id = e /\ HasLiveClaim(i, PROPERTY_INSTANCE_OF, x)

-----------------------------------------------------------------------------
(* Claims about format_datavalue, checked under SpecRender *)

\* call k handed format_datavalue a value snak of no recognized datatype
Unrecognized(k) ==
    /\ r_calls[k].argument.snaktype = "value"
    /\ r_calls[k].argument.datatype \notin DATATYPE_FORMATTERS

\* call k is the first call with a value snak of its datatype
FirstOfDatatype(k) ==
    \A j \in 1..(k - 1) :
        Unrecognized(j) => r_calls[j].argument.datatype # r_calls[k].argument.datatype

\* C10: over the calls of one process each unrecognized datatype is printed
\* once, by the first call that meets it, and by no later call; every such
\* call returns the raw dump of the payload.
C10_LoggedOncePerDatatype ==
    /\ \A k \in 1..Len(r_calls) :
          /\ Unrecognized(k) =>
                /\ r_calls[k].ok
                /\ r_calls[k].text = <<"'">> \o r_calls[k].argument.datavalue.value
                                         \o <<"'">>
          /\ r_calls[k].printed =
                IF Unrecognized(k) /\ FirstOfDatatype(k)
                THEN <<r_calls[k].argument.datatype>> ELSE <<>>
    /\ \A k \in 1..Len(r_calls) :
          Unrecognized(k) =>
              Cardinality({n \in 1..Len(log) : log[n] = r_calls[k].argument.datatype}) = 1
    /\ \A n \in 1..Len(log) :
          \E k \in 1..Len(r_calls) :
              Unrecognized(k) /\ r_calls[k].argument.datatype = log[n]

\* a datatype was met three times, by two different snaks, with another
\* unrecognized datatype in between, and printed once
C10_Witness ==
    /\ Len(r_calls) = 4
    /\ Unrecognized(1) /\ Unrecognized(2) /\ Unrecognized(3) /\ Unrecognized(4)
    /\ r_calls[1].argument.datatype = r_calls[3].argument.datatype
    /\ r_calls[1].argument.datatype = r_calls[4].argument.datatype
    /\ r_calls[1].argument.datatype # r_calls[2].argument.datatype
    /\ r_calls[1].snak # r_calls[3].snak
    /\ Len(log) = 2

\* call k handed format_datavalue a value snak of a recognized datatype
Recognized(k) ==
    /\ r_calls[k].argument.snaktype = "value"
    /\ r_calls[k].argument.datatype \in DATATYPE_FORMATTERS

\* C11: rendering is pure: a call on a snak of a recognized datatype leaves
\* the snak and its payload as they were, so every snak is still what it was
\* before the first call, and two calls on the same snak (the label table is
\* the same all along) return the same text.
C11_RenderIsPure ==
    /\ \A k \in 1..Len(r_calls) :
          Recognized(k) => r_snaks[r_calls[k].snak] = r_calls[k].argument
    /\ \A k \in 1..Len(r_calls) : \A j \in 1..(k - 1) :
          (r_calls[j].snak = r_calls[k].snak /\ Recognized(j)) =>
              /\ r_calls[k].ok = r_calls[j].ok
              /\ r_calls[k].text = r_calls[j].text

\* the text of the days of a time payload cut down to its precision
StampOf(value) ==
    LET days == SubSeq(value.time, 1, Index(value.time, "T") - 1)
        months == IF value.precision < 11 THEN UpToRFind(days, "-") ELSE days
    IN  IF value.precision < 10 THEN UpToRFind(months, "-") ELSE months

\* the calendar annotation the three cases ask for
CalendarSuffix(value, labels) ==
    LET calendarid == _entity_id_from_uri(value.calendarmodel)
    IN  IF calendarid = PROLEPTIC_GREGORIAN_CALENDER THEN <<>>
        ELSE IF calendarid \in DOMAIN labels
             THEN <<" ", "(">> \o labels[calendarid] \o <<")">>
        ELSE <<" ", "(">> \o calendarid \o <<")">>

\* C12: every call on a time snak returns, and the text is the stamp with no
\* annotation for the proleptic Gregorian calendar, with " (<label>)" for a
\* calendar the label table names, and with " (<calendar id>)" for any other.
C12_TimeAlwaysRenders ==
    \A k \in 1..Len(r_calls) :
        (r_calls[k].argument.snaktype = "value" /\ r_calls[k].argument.datatype = "time") =>
            LET value == r_calls[k].argument.datavalue.value
            IN  /\ r_calls[k].ok
                /\ r_calls[k].text
                       = StampOf(value) \o CalendarSuffix(value, LabelTables[r_labels])

-----------------------------------------------------------------------------
(* Claims about the closure loop, checked under SpecClosureLive *)

\* some item has a successor one of whose own successors it lacks: a pass over
\* the relation gives some item's set a new element
Gains(relation) ==
    \E a \in DOMAIN relation : \E b \in relation[a] :
        Succ(relation, b) \ relation[a] # {}

\* a pass: the keys stay, no item's successor set shrinks, the relation
\* changes exactly when the pass gives some set a new element, and the loop
\* goes on exactly then
PassStep ==
    (tc_pc = "loop" /\ tc_changed) =>
        /\ DOMAIN tc_relation' = DOMAIN tc_relation
        /\ \A item \in DOMAIN tc_relation : tc_relation[item] \subseteq tc_relation'[item]
        /\ (tc_relation' # tc_relation) = Gains(tc_relation)
        /\ tc_changed' = Gains(tc_relation)
        /\ tc_pc' = "loop"

\* after a pass without a gain the call returns without another pass
StopStep ==
    (tc_pc = "loop" /\ ~tc_changed) =>
        /\ tc_relation' = tc_relation
        /\ ~Gains(tc_relation)
        /\ tc_run' = 2
        /\ (tc_run = 2 => tc_pc' = "returned")

\* C13: for every relation (cyclic ones, successors that are no keys) the
\* loop terminates; from pass to pass no item's successor set shrinks; and
\* the loop stops exactly after the first pass in which no set gains an
\* element.
C13_LoopTerminatesMonotone ==
    /\ [][PassStep /\ StopStep]_vars
    /\ <>(tc_pc = "returned")

\* both calls have returned on a cyclic relation that took two passes with a
\* gain: some id is no successor of itself, but is one in the closure
C13_Witness ==
    /\ tc_pc = "returned"
    /\ \E a \in DOMAIN tc_input : a \notin tc_input[a] /\ a \in tc_first[a]
    /\ Gains(tc_input)
    /\ Gains(StepOf(tc_input))

-----------------------------------------------------------------------------
(* Claims about the closure as reachability, checked under SpecClosure *)

\* the ids a path of direct edges of the relation leads to from the ids of
\* S, S included: one edge more at a time
RECURSIVE ReachedFrom(_, _)
ReachedFrom(relation, S) ==
    LET further == S \cup UNION {Succ(relation, b) : b \in S}
    IN  IF further = S THEN S ELSE ReachedFrom(relation, further)

\* the ids a path of at least one direct edge leads to from a
Reachable(relation, a) == ReachedFrom(relation, Succ(relation, a))

\* C14: the closure has the keys of the input and no other (an id that is
\* only a successor gets no entry and stops nothing); for every key a its
\* set holds c exactly when a path of at least one direct edge of the input
\* leads from a to c; and the input relation is what it was before the call.
C14_ExactlyReachability ==
    /\ [](tc_run = 2 =>
            /\ DOMAIN tc_first = DOMAIN tc_input
            /\ \A a \in DOMAIN tc_input : tc_first[a] = Reachable(tc_input, a))
    /\ [][tc_input' = tc_input]_vars

\* the call has returned on a relation with a successor that is no key; some
\* key gained an id two edges away, and some key does not reach itself
C14_Witness ==
    /\ tc_run = 2
    /\ \E a \in DOMAIN tc_input : \E b \in tc_input[a] : b \notin DOMAIN tc_input
    /\ \E a \in DOMAIN tc_input : tc_first[a] \ tc_input[a] # {}
    /\ \E a \in DOMAIN tc_input : tc_input[a] # {} /\ a \notin tc_first[a]

====
